---- MODULE Spec2Model ----
(***************************************************************************)
(* Standings and match-ledger core of the Brasileirao simulator:           *)
(* StandingsCalculator, MatchService, TeamService.ensureTeamStats,         *)
(* Utils.generateRandomScore, DataManager.loadData and MatchManager.       *)
(*                                                                         *)
(* JavaScript values: a score slot holds either the empty string (the      *)
(* unset marker) or a number.  The empty string is written Unset == <<>>   *)
(* and the number n is written <<n>>, so that the two never compare equal  *)
(* and 0 is a set score.  An object is a function from field names; a      *)
(* field the object does not have is outside its DOMAIN.                   *)
(***************************************************************************)
EXTENDS Integers, Sequences, FiniteSets, TLC

VARIABLES
    standings,          \* state.standings: sequence of team objects
    initialStandings,   \* state.initialStandings: the loaded raw rows
    allMatches,         \* state.allMatches: round -> sequence of matches
    currentRound,       \* state.currentRound
    simulatedMatches,   \* state.simulatedMatches: Map match id -> entry
    matchesRound,       \* the round whose array state.matches refers to
    pendingLoads,       \* loadData calls waiting for their fetches
    lastOp,             \* history: the operation that produced this state
    probe               \* harness of the pure functions (SpecStats)

vars == <<standings, initialStandings, allMatches, currentRound,
          simulatedMatches, matchesRound, pendingLoads, lastOp, probe>>

-----------------------------------------------------------------------------
(* Bounds and program constants *)

\* largest score a user types into a score input
MaxScore == 1

\* CONFIG.MIN_ROUND
MIN_ROUND == 16

\* CONFIG.MAX_ROUND
MAX_ROUND == 38

\* CONFIG.MAX_GOALS
MAX_GOALS == 20

\* last round the user navigates to
MaxRoundVisited == 18

\* most loadData calls in flight at once
MaxPending == 1

\* failed reloads explored
MaxFailed == 1

-----------------------------------------------------------------------------
(* JavaScript object helpers *)

Has(obj, f) == f \in DOMAIN obj

\* obj.f || 0 for a numeric or missing field
OrZero(obj, f) == IF Has(obj, f) /\ obj[f] # 0 THEN obj[f] ELSE 0

\* obj.f = v (creates the field when it is missing)
Put(obj, f, v) == (f :> v) @@ obj

Unset == <<>>

Num(n) == <<n>>

\* parseInt(v) || 0 for a score slot: "" parses to NaN, NaN || 0 is 0
parseIntOrZero(v) == IF v = Unset THEN 0 ELSE v[1]

\* Utils.deepClone: JSON round trip; rebuilds the object field by field
deepClone(obj) == [f \in DOMAIN obj |-> obj[f]]

-----------------------------------------------------------------------------
(* Input data: data/initial_standings.json and data/round_fixtures.json *)

\* String.prototype.localeCompare on the team names in use
\* "undefined" is what localeCompare makes of a missing argument
Collation == <<"Bahia", "Flamengo", "Palmeiras", "Santos", "undefined">>

NameRank(name) == CHOOSE i \in 1..Len(Collation) : Collation[i] = name

localeCompare(a, b) ==
    IF NameRank(a) < NameRank(b) THEN 0 - 1
    ELSE IF NameRank(a) > NameRank(b) THEN 1 ELSE 0

\* rows 1 and 2 carry every column; rows 3 and 4 leave out optional columns
\* that are zero (draws, defeats, goal_against)
LoadedTable == <<
    [id |-> 1, name |-> "Flamengo", points |-> 7, games |-> 3, victories |-> 2,
     draws |-> 1, defeats |-> 0, goal_pro |-> 5, goal_against |-> 2],
    [id |-> 2, name |-> "Palmeiras", points |-> 4, games |-> 3, victories |-> 1,
     draws |-> 1, defeats |-> 1, goal_pro |-> 3, goal_against |-> 3],
    [id |-> 3, name |-> "Santos", points |-> 3, games |-> 1, victories |-> 1,
     goal_pro |-> 2],
    [id |-> 4, name |-> "Bahia", points |-> 0, games |-> 1, victories |-> 0,
     defeats |-> 1, goal_pro |-> 0, goal_against |-> 2] >>

InitialStandingsData == {LoadedTable}

RoundFixtures ==
    (16 :> <<[id |-> 1, homeTeam |-> [id |-> 1], awayTeam |-> [id |-> 2]],
             [id |-> 2, homeTeam |-> [id |-> 3], awayTeam |-> [id |-> 4]]>>)
    @@ (17 :> <<[id |-> 3, homeTeam |-> [id |-> 2], awayTeam |-> [id |-> 3]]>>)

\* values the score input handler hands to updateMatchScore: "" or parseInt(raw)
InputValues == {Unset} \cup {Num(n) : n \in (0 - 1)..MaxScore}

ScoreFields == {"homeScore", "awayScore"}

\* Math.random() in hundredths; one draw in the first bucket of the weight
\* table and one in the second
RandomDraws == {10, 40}

-----------------------------------------------------------------------------
(* TeamService *)

ensureTeamStats(team) ==
    ("balance_goals" :> (team.goal_pro - OrZero(team, "goal_against")))
        @@ team
        @@ [defeats |-> 0, draws |-> 0, goal_against |-> 0]

-----------------------------------------------------------------------------
(* Utils.generateRandomScore *)

weights == <<30, 25, 20, 15, 5, 3, 2>>

RECURSIVE scanWeights(_, _, _)
scanWeights(random, i, cumulative) ==
    IF i > Len(weights) THEN 0
    ELSE LET c == cumulative + weights[i]
         IN  IF random <= c THEN i - 1 ELSE scanWeights(random, i + 1, c)

\* mutant: returns the 1-based index of the selected bucket
generateRandomScoreOneBased(random) == scanWeights(random, 1, 0) + 1

generateRandomScore(random) == scanWeights(random, 1, 0)

\* Math.random() in hundredths; 100 and 101 stand for a draw at or above the
\* accumulated weights
DrawValues == 0..101

-----------------------------------------------------------------------------
(* MatchService *)

initializeMatch(match) ==
    ("homeScore" :> Unset) @@ ("awayScore" :> Unset) @@ ("simulated" :> FALSE)
        @@ match

\* mutant: a score is taken as set when it is truthy, so 0 counts as unset
isMatchCompleteTruthy(match) ==
    /\ match.homeScore # Unset /\ match.homeScore # Num(0)
    /\ match.awayScore # Unset /\ match.awayScore # Num(0)

isMatchComplete(match) == match.homeScore # Unset /\ match.awayScore # Unset

\* draw is the pair of Math.random() values the two calls consume
simulateMatch(draw) ==
    [homeScore |-> generateRandomScore(draw[1]),
     awayScore |-> generateRandomScore(draw[2])]

createMatchResult(match) ==
    [matchId |-> match.id,
     homeTeamId |-> match.homeTeam.id,
     awayTeamId |-> match.awayTeam.id,
     homeScore |-> parseIntOrZero(match.homeScore),
     awayScore |-> parseIntOrZero(match.awayScore)]

-----------------------------------------------------------------------------
(* StandingsCalculator *)

\* mutant: a defeat is counted whatever the multiplier, so it is never undone
updateResultStatsDefeatNotUndone(team, result, multiplier) ==
    CASE result = "win" ->
           [team EXCEPT !.victories = @ + (1 * multiplier),
                        !.points = @ + (3 * multiplier)]
      [] result = "loss" ->
           Put(team, "defeats", OrZero(team, "defeats") + 1)
      [] result = "draw" ->
           LET t == Put(team, "draws", OrZero(team, "draws") + (1 * multiplier))
           IN  [t EXCEPT !.points = @ + (1 * multiplier)]
      [] OTHER -> team

\* mutant: a draw is counted but gives no point
updateResultStatsDrawWithoutPoint(team, result, multiplier) ==
    CASE result = "win" ->
           [team EXCEPT !.victories = @ + (1 * multiplier),
                        !.points = @ + (3 * multiplier)]
      [] result = "loss" ->
           Put(team, "defeats", OrZero(team, "defeats") + (1 * multiplier))
      [] result = "draw" ->
           Put(team, "draws", OrZero(team, "draws") + (1 * multiplier))
      [] OTHER -> team

updateResultStats(team, result, multiplier) ==
    CASE result = "win" ->
           [team EXCEPT !.victories = @ + (1 * multiplier),
                        !.points = @ + (3 * multiplier)]
      [] result = "loss" ->
           Put(team, "defeats", OrZero(team, "defeats") + (1 * multiplier))
      [] result = "draw" ->
           LET t == Put(team, "draws", OrZero(team, "draws") + (1 * multiplier))
           IN  [t EXCEPT !.points = @ + (1 * multiplier)]
      [] OTHER -> team

\* mutant: the home score is taken as the goals scored whatever the side
updateTeamStatsHomeGoalsForBoth(team, homeScore, awayScore, isHomeTeam, multiplier) ==
    LET goalsFor == homeScore
        goalsAgainst == awayScore
        t1 == [deepClone(team) EXCEPT !.games = @ + (1 * multiplier),
                                      !.goal_pro = @ + (goalsFor * multiplier)]
        t2 == Put(t1, "goal_against",
                  OrZero(t1, "goal_against") + (goalsAgainst * multiplier))
        t3 == Put(t2, "balance_goals", t2.goal_pro - t2.goal_against)
        result == IF homeScore > awayScore
                  THEN (IF isHomeTeam THEN "win" ELSE "loss")
                  ELSE IF awayScore > homeScore
                       THEN (IF isHomeTeam THEN "loss" ELSE "win")
                       ELSE "draw"
    IN  updateResultStats(t3, result, multiplier)

\* mutant: the game is counted whatever the multiplier
updateTeamStatsGameNotUndone(team, homeScore, awayScore, isHomeTeam, multiplier) ==
    LET goalsFor == IF isHomeTeam THEN homeScore ELSE awayScore
        goalsAgainst == IF isHomeTeam THEN awayScore ELSE homeScore
        t1 == [deepClone(team) EXCEPT !.games = @ + 1,
                                      !.goal_pro = @ + (goalsFor * multiplier)]
        t2 == Put(t1, "goal_against",
                  OrZero(t1, "goal_against") + (goalsAgainst * multiplier))
        t3 == Put(t2, "balance_goals", t2.goal_pro - t2.goal_against)
        result == IF homeScore > awayScore
                  THEN (IF isHomeTeam THEN "win" ELSE "loss")
                  ELSE IF awayScore > homeScore
                       THEN (IF isHomeTeam THEN "loss" ELSE "win")
                       ELSE "draw"
    IN  updateResultStats(t3, result, multiplier)

\* mutant: balance_goals is kept as loaded instead of being recomputed
updateTeamStatsStaleBalance(team, homeScore, awayScore, isHomeTeam, multiplier) ==
    LET goalsFor == IF isHomeTeam THEN homeScore ELSE awayScore
        goalsAgainst == IF isHomeTeam THEN awayScore ELSE homeScore
        t1 == [deepClone(team) EXCEPT !.games = @ + (1 * multiplier),
                                      !.goal_pro = @ + (goalsFor * multiplier)]
        t2 == Put(t1, "goal_against",
                  OrZero(t1, "goal_against") + (goalsAgainst * multiplier))
        result == IF homeScore > awayScore
                  THEN (IF isHomeTeam THEN "win" ELSE "loss")
                  ELSE IF awayScore > homeScore
                       THEN (IF isHomeTeam THEN "loss" ELSE "win")
                       ELSE "draw"
    IN  updateResultStats(t2, result, multiplier)

updateTeamStats(team, homeScore, awayScore, isHomeTeam, multiplier) ==
    LET goalsFor == IF isHomeTeam THEN homeScore ELSE awayScore
        goalsAgainst == IF isHomeTeam THEN awayScore ELSE homeScore
        t1 == [deepClone(team) EXCEPT !.games = @ + (1 * multiplier),
                                      !.goal_pro = @ + (goalsFor * multiplier)]
        t2 == Put(t1, "goal_against",
                  OrZero(t1, "goal_against") + (goalsAgainst * multiplier))
        t3 == Put(t2, "balance_goals", t2.goal_pro - t2.goal_against)
        result == IF homeScore > awayScore
                  THEN (IF isHomeTeam THEN "win" ELSE "loss")
                  ELSE IF awayScore > homeScore
                       THEN (IF isHomeTeam THEN "loss" ELSE "win")
                       ELSE "draw"
    IN  updateResultStats(t3, result, multiplier)

\* mutant: teams level on every number compare equal
compareTeamsWithoutName(a, b) ==
    IF b.points # a.points THEN b.points - a.points
    ELSE IF b.victories # a.victories THEN b.victories - a.victories
    ELSE IF b.balance_goals # a.balance_goals
         THEN b.balance_goals - a.balance_goals
    ELSE IF b.goal_pro # a.goal_pro THEN b.goal_pro - a.goal_pro
    ELSE IF OrZero(a, "goal_against") # OrZero(b, "goal_against")
         THEN OrZero(a, "goal_against") - OrZero(b, "goal_against")
    ELSE 0

\* mutant: more goals conceded goes first
compareTeamsMostConcededFirst(a, b) ==
    IF b.points # a.points THEN b.points - a.points
    ELSE IF b.victories # a.victories THEN b.victories - a.victories
    ELSE IF b.balance_goals # a.balance_goals
         THEN b.balance_goals - a.balance_goals
    ELSE IF b.goal_pro # a.goal_pro THEN b.goal_pro - a.goal_pro
    ELSE IF OrZero(a, "goal_against") # OrZero(b, "goal_against")
         THEN OrZero(b, "goal_against") - OrZero(a, "goal_against")
    ELSE localeCompare(a.name, b.name)

\* the comparator of sortStandings: negative when a goes first
compareTeams(a, b) ==
    IF b.points # a.points THEN b.points - a.points
    ELSE IF b.victories # a.victories THEN b.victories - a.victories
    ELSE IF b.balance_goals # a.balance_goals
         THEN b.balance_goals - a.balance_goals
    ELSE IF b.goal_pro # a.goal_pro THEN b.goal_pro - a.goal_pro
    ELSE IF OrZero(a, "goal_against") # OrZero(b, "goal_against")
         THEN OrZero(a, "goal_against") - OrZero(b, "goal_against")
    ELSE localeCompare(a.name, IF Has(b, "name") THEN b.name ELSE "undefined")

\* the comparator raises a TypeError: the numbers tie and a.name is undefined,
\* so a.name.localeCompare has no receiver
compareThrows(a, b) ==
    /\ b.points = a.points
    /\ b.victories = a.victories
    /\ b.balance_goals = a.balance_goals
    /\ b.goal_pro = a.goal_pro
    /\ OrZero(a, "goal_against") = OrZero(b, "goal_against")
    /\ ~Has(a, "name")

\* sortStandings of a two-row table; the engine calls the comparator once, with
\* row `first` as a and the other row as b, and an exception of the comparator
\* leaves sortStandings
sortStandingsOfTwo(table, first) ==
    LET a == table[first]
        b == table[3 - first]
    IN  IF compareThrows(a, b) THEN [threw |-> TRUE, value |-> <<>>]
        ELSE LET c == compareTeams(a, b)
                 sorted == IF c < 0 \/ (c = 0 /\ first = 1)
                           THEN <<a, b>> ELSE <<b, a>>
             IN  [threw |-> FALSE,
                  value |-> [index \in 1..2 |->
                                Put(sorted[index], "position", index)]]

\* Array.prototype.sort is stable: x goes before the first element it beats
RECURSIVE insertSorted(_, _)
insertSorted(sorted, x) ==
    IF sorted = <<>> THEN <<x>>
    ELSE IF compareTeams(x, Head(sorted)) < 0 THEN <<x>> \o sorted
    ELSE <<Head(sorted)>> \o insertSorted(Tail(sorted), x)

RECURSIVE stableSort(_, _)
stableSort(sorted, rest) ==
    IF rest = <<>> THEN sorted
    ELSE stableSort(insertSorted(sorted, Head(rest)), Tail(rest))

\* mutant: position is the 0-based index
sortStandingsZeroBased(table) ==
    LET sorted == stableSort(<<>>, table)
    IN  [index \in 1..Len(sorted) |-> Put(sorted[index], "position", index - 1)]

sortStandings(table) ==
    LET sorted == stableSort(<<>>, table)
    IN  [index \in 1..Len(sorted) |-> Put(sorted[index], "position", index)]

\* mutant: every team that is not the home team is updated as the away team
processMatchResultAwayForRest(table, matchResult, isReversing) ==
    LET multiplier == IF isReversing THEN 0 - 1 ELSE 1
        newStandings ==
            [i \in 1..Len(table) |->
                IF table[i].id = matchResult.homeTeamId
                THEN updateTeamStats(table[i], matchResult.homeScore,
                                     matchResult.awayScore, TRUE, multiplier)
                ELSE updateTeamStats(table[i], matchResult.homeScore,
                                     matchResult.awayScore, FALSE, multiplier)]
    IN  sortStandings(newStandings)

\* mutant: the table is returned as it is unless both teams are in it
processMatchResultNeedsBothTeams(table, matchResult, isReversing) ==
    LET multiplier == IF isReversing THEN 0 - 1 ELSE 1
        ids == {table[i].id : i \in 1..Len(table)}
        newStandings ==
            [i \in 1..Len(table) |->
                IF table[i].id = matchResult.homeTeamId
                THEN updateTeamStats(table[i], matchResult.homeScore,
                                     matchResult.awayScore, TRUE, multiplier)
                ELSE IF table[i].id = matchResult.awayTeamId
                THEN updateTeamStats(table[i], matchResult.homeScore,
                                     matchResult.awayScore, FALSE, multiplier)
                ELSE table[i]]
    IN  IF matchResult.homeTeamId \in ids /\ matchResult.awayTeamId \in ids
        THEN sortStandings(newStandings)
        ELSE table

\* mutant: the updated table is returned in the order it had
processMatchResultUnsorted(table, matchResult, isReversing) ==
    LET multiplier == IF isReversing THEN 0 - 1 ELSE 1
    IN  [i \in 1..Len(table) |->
            IF table[i].id = matchResult.homeTeamId
            THEN updateTeamStats(table[i], matchResult.homeScore,
                                 matchResult.awayScore, TRUE, multiplier)
            ELSE IF table[i].id = matchResult.awayTeamId
            THEN updateTeamStats(table[i], matchResult.homeScore,
                                 matchResult.awayScore, FALSE, multiplier)
            ELSE table[i]]

processMatchResult(table, matchResult, isReversing) ==
    LET multiplier == IF isReversing THEN 0 - 1 ELSE 1
        newStandings ==
            [i \in 1..Len(table) |->
                IF table[i].id = matchResult.homeTeamId
                THEN updateTeamStats(table[i], matchResult.homeScore,
                                     matchResult.awayScore, TRUE, multiplier)
                ELSE IF table[i].id = matchResult.awayTeamId
                THEN updateTeamStats(table[i], matchResult.homeScore,
                                     matchResult.awayScore, FALSE, multiplier)
                ELSE table[i]]
    IN  sortStandings(newStandings)

\* Math.abs on integers
Abs(n) == IF n < 0 THEN 0 - n ELSE n

NaN == <<"NaN">>

\* the entry of a team of newStandings: the index of the last row with this id
LastIndex(table, id) ==
    CHOOSE i \in 1..Len(table) :
        /\ table[i].id = id
        /\ \A j \in (i + 1)..Len(table) : table[j].id # id

\* mutant: a smaller new position is reported as a move down
getPositionChangesInverted(newStandings, oldStandings) ==
    LET oldIds == {oldStandings[i].id : i \in 1..Len(oldStandings)}
        oldRow(id) == oldStandings[LastIndex(oldStandings, id)]
        known == {id \in {newStandings[i].id : i \in 1..Len(newStandings)} :
                    id \in oldIds /\ Has(oldRow(id), "position")}
        change(team, oldPosition) ==
            IF ~Has(team, "position")
            THEN [direction |-> "down", positionsChanged |-> NaN]
            ELSE IF team.position # oldPosition
            THEN [direction |-> IF team.position < oldPosition
                                THEN "down" ELSE "up",
                  positionsChanged |-> Abs(team.position - oldPosition)]
            ELSE [direction |-> "none", positionsChanged |-> 0]
    IN  [id \in known |->
            change(newStandings[LastIndex(newStandings, id)],
                   oldRow(id).position)]

\* mutant: a team with no old position gets a zero-change entry
getPositionChangesZeroForNew(newStandings, oldStandings) ==
    LET oldIds == {oldStandings[i].id : i \in 1..Len(oldStandings)}
        oldRow(id) == oldStandings[LastIndex(oldStandings, id)]
        known == {id \in {newStandings[i].id : i \in 1..Len(newStandings)} :
                    id \in oldIds /\ Has(oldRow(id), "position")}
        change(team, oldPosition) ==
            IF ~Has(team, "position")
            THEN [direction |-> "down", positionsChanged |-> NaN]
            ELSE IF team.position # oldPosition
            THEN [direction |-> IF team.position < oldPosition
                                THEN "up" ELSE "down",
                  positionsChanged |-> Abs(team.position - oldPosition)]
            ELSE [direction |-> "none", positionsChanged |-> 0]
    IN  [id \in {newStandings[i].id : i \in 1..Len(newStandings)} |->
            IF id \in known
            THEN change(newStandings[LastIndex(newStandings, id)],
                        oldRow(id).position)
            ELSE [direction |-> "none", positionsChanged |-> 0]]

\* oldPositions[team.id] is undefined for a team that is not in oldStandings
\* or has no position there: such a team gets no entry
getPositionChanges(newStandings, oldStandings) ==
    LET oldIds == {oldStandings[i].id : i \in 1..Len(oldStandings)}
        oldRow(id) == oldStandings[LastIndex(oldStandings, id)]
        known == {id \in {newStandings[i].id : i \in 1..Len(newStandings)} :
                    id \in oldIds /\ Has(oldRow(id), "position")}
        change(team, oldPosition) ==
            IF ~Has(team, "position")
            THEN [direction |-> "down", positionsChanged |-> NaN]
            ELSE IF team.position # oldPosition
            THEN [direction |-> IF team.position < oldPosition
                                THEN "up" ELSE "down",
                  positionsChanged |-> Abs(team.position - oldPosition)]
            ELSE [direction |-> "none", positionsChanged |-> 0]
    IN  [id \in known |->
            change(newStandings[LastIndex(newStandings, id)],
                   oldRow(id).position)]

-----------------------------------------------------------------------------
(* MatchManager.  st is the part of `state` the manager reads and writes:   *)
(* [standings, matches, simulatedMatches], matches being state.matches.      *)

EmptyMap == <<>>

MapHas(map, key) == key \in DOMAIN map

MapSet(map, key, value) == (key :> value) @@ map

MapDelete(map, key) == [k \in (DOMAIN map) \ {key} |-> map[k]]

applyMatchResult(st, match) ==
    [st EXCEPT !.standings =
        processMatchResult(st.standings, createMatchResult(match), FALSE)]

\* mutant: reverses the scores the match holds now, not the recorded ones
reverseByCurrentScores(st, match, homeScore, awayScore) ==
    [st EXCEPT !.standings =
        processMatchResult(st.standings, createMatchResult(match), TRUE)]

reverseMatchResultByValues(st, match, homeScore, awayScore) ==
    LET matchResult == [matchId |-> match.id,
                        homeTeamId |-> match.homeTeam.id,
                        awayTeamId |-> match.awayTeam.id,
                        homeScore |-> parseIntOrZero(homeScore),
                        awayScore |-> parseIntOrZero(awayScore)]
    IN  [st EXCEPT !.standings =
            processMatchResult(st.standings, matchResult, TRUE)]

\* mutant: simulates every match, complete or not
simulateOneAlways(st, i, draw) ==
    LET match == st.matches[i]
        result == simulateMatch(draw)
        s1 == IF MapHas(st.simulatedMatches, match.id)
              THEN LET prev == st.simulatedMatches[match.id]
                   IN  reverseMatchResultByValues(
                           st, match, prev.homeScore, prev.awayScore)
              ELSE st
        m1 == [match EXCEPT !.homeScore = Num(result.homeScore),
                            !.awayScore = Num(result.awayScore)]
        s2 == applyMatchResult([s1 EXCEPT !.matches[i] = m1], m1)
    IN  [s2 EXCEPT !.simulatedMatches =
            MapSet(s2.simulatedMatches, m1.id,
                   [homeScore |-> m1.homeScore, awayScore |-> m1.awayScore])]

\* mutant: a match that already has a ledger entry is simulated again
simulateOneAgain(st, i, draw) ==
    IF ~isMatchComplete(st.matches[i])
         \/ MapHas(st.simulatedMatches, st.matches[i].id)
    THEN simulateOneAlways(st, i, draw)
    ELSE st

\* the body of simulateRound's forEach for the match at index i
simulateOne(st, i, draw) ==
    LET match == st.matches[i]
    IN  IF ~isMatchComplete(match)
        THEN LET result == simulateMatch(draw)
                 s1 == IF MapHas(st.simulatedMatches, match.id)
                       THEN LET prev == st.simulatedMatches[match.id]
                            IN  reverseMatchResultByValues(
                                    st, match, prev.homeScore, prev.awayScore)
                       ELSE st
                 m1 == [match EXCEPT !.homeScore = Num(result.homeScore),
                                     !.awayScore = Num(result.awayScore)]
                 s2 == applyMatchResult([s1 EXCEPT !.matches[i] = m1], m1)
             IN  [s2 EXCEPT !.simulatedMatches =
                     MapSet(s2.simulatedMatches, m1.id,
                            [homeScore |-> m1.homeScore,
                             awayScore |-> m1.awayScore])]
        ELSE st

RECURSIVE simulateFrom(_, _, _)
simulateFrom(st, i, draws) ==
    IF i > Len(st.matches) THEN st
    ELSE simulateFrom(simulateOne(st, i, draws[i]), i + 1, draws)

simulateRound(st, draws) ==
    IF Len(st.matches) = 0 THEN st ELSE simulateFrom(st, 1, draws)

\* mutant: reverses and unsets the scores but keeps the ledger entry
clearOneKeepsEntry(st, i) ==
    LET match == st.matches[i]
    IN  IF MapHas(st.simulatedMatches, match.id)
        THEN LET prev == st.simulatedMatches[match.id]
                 s1 == reverseMatchResultByValues(
                           st, match, prev.homeScore, prev.awayScore)
             IN  [s1 EXCEPT !.matches[i] = [match EXCEPT !.homeScore = Unset,
                                                         !.awayScore = Unset]]
        ELSE st

\* mutant: unsets the scores of every match, with a ledger entry or not
clearOneUnsetsAll(st, i) ==
    LET match == st.matches[i]
        blank == [match EXCEPT !.homeScore = Unset, !.awayScore = Unset]
    IN  IF MapHas(st.simulatedMatches, match.id)
        THEN LET prev == st.simulatedMatches[match.id]
                 s1 == reverseMatchResultByValues(
                           st, match, prev.homeScore, prev.awayScore)
             IN  [s1 EXCEPT !.simulatedMatches = MapDelete(@, match.id),
                            !.matches[i] = blank]
        ELSE [st EXCEPT !.matches[i] = blank]

\* the body of clearRound's forEach for the match at index i
clearOne(st, i) ==
    LET match == st.matches[i]
    IN  IF MapHas(st.simulatedMatches, match.id)
        THEN LET prev == st.simulatedMatches[match.id]
                 s1 == reverseMatchResultByValues(
                           st, match, prev.homeScore, prev.awayScore)
             IN  [s1 EXCEPT !.simulatedMatches = MapDelete(@, match.id),
                            !.matches[i] = [match EXCEPT !.homeScore = Unset,
                                                         !.awayScore = Unset]]
        ELSE st

RECURSIVE clearFrom(_, _)
clearFrom(st, i) ==
    IF i > Len(st.matches) THEN st ELSE clearFrom(clearOne(st, i), i + 1)

\* mutant: the whole ledger is emptied, entries of other rounds included
clearRoundForgetsOtherRounds(st) ==
    [clearFrom(st, 1) EXCEPT !.simulatedMatches = EmptyMap]

clearRound(st) == clearFrom(st, 1)

\* mutant: an id that is not in the list selects the first match
findMatchOrFirst(matches, matchId) ==
    IF \E i \in 1..Len(matches) : matches[i].id = matchId
    THEN CHOOSE i \in 1..Len(matches) :
            /\ matches[i].id = matchId
            /\ \A j \in 1..(i - 1) : matches[j].id # matchId
    ELSE IF Len(matches) > 0 THEN 1 ELSE 0

\* state.matches.find(m => String(m.id) === String(matchId)); 0 when not found
findMatch(matches, matchId) ==
    IF \E i \in 1..Len(matches) : matches[i].id = matchId
    THEN CHOOSE i \in 1..Len(matches) :
            /\ matches[i].id = matchId
            /\ \A j \in 1..(i - 1) : matches[j].id # matchId
    ELSE 0

\* mutant: reverses the applied result but keeps its ledger entry
unsetBranchKeepsEntry(s0, match) ==
    IF MapHas(s0.simulatedMatches, match.id)
    THEN LET prev == s0.simulatedMatches[match.id]
         IN  reverseMatchResultByValues(s0, match, prev.homeScore, prev.awayScore)
    ELSE s0

\* mutant: with no ledger entry the scores of the match are reversed
unsetBranchReversesAnyway(s0, match) ==
    IF MapHas(s0.simulatedMatches, match.id)
    THEN LET prev == s0.simulatedMatches[match.id]
             s1 == reverseMatchResultByValues(
                       s0, match, prev.homeScore, prev.awayScore)
         IN  [s1 EXCEPT !.simulatedMatches = MapDelete(@, match.id)]
    ELSE reverseMatchResultByValues(s0, match, match.homeScore, match.awayScore)

\* updateMatchScore, a score was removed: reverse what was applied and stop
unsetBranch(s0, match) ==
    IF MapHas(s0.simulatedMatches, match.id)
    THEN LET prev == s0.simulatedMatches[match.id]
             s1 == reverseMatchResultByValues(
                       s0, match, prev.homeScore, prev.awayScore)
         IN  [s1 EXCEPT !.simulatedMatches = MapDelete(@, match.id)]
    ELSE s0

\* mutant: applies the new result on top of the previous one
completeBranchWithoutReverse(s0, match) ==
    IF isMatchComplete(match)
    THEN LET s2 == applyMatchResult(s0, match)
             applied == createMatchResult(match)
         IN  [s2 EXCEPT !.simulatedMatches =
                 MapSet(@, match.id,
                        [homeScore |-> Num(applied.homeScore),
                         awayScore |-> Num(applied.awayScore)])]
    ELSE s0

\* updateMatchScore, both scores present: reverse the previous result, apply
completeBranch(s0, match) ==
    IF isMatchComplete(match)
    THEN LET s1 == IF MapHas(s0.simulatedMatches, match.id)
                   THEN LET prev == s0.simulatedMatches[match.id]
                        IN  reverseMatchResultByValues(
                                s0, match, prev.homeScore, prev.awayScore)
                   ELSE s0
             s2 == applyMatchResult(s1, match)
             applied == createMatchResult(match)
         IN  [s2 EXCEPT !.simulatedMatches =
                 MapSet(@, match.id,
                        [homeScore |-> Num(applied.homeScore),
                         awayScore |-> Num(applied.awayScore)])]
    ELSE s0

updateMatchScore(st, matchId, field, value) ==
    LET i == findMatch(st.matches, matchId)
    IN  IF i = 0 THEN st
        ELSE
        LET m0 == st.matches[i]
            m1 == IF field = "homeScore" THEN [m0 EXCEPT !.homeScore = value]
                  ELSE m0
            match == IF field = "awayScore" THEN [m1 EXCEPT !.awayScore = value]
                     ELSE m1
            s0 == [st EXCEPT !.matches[i] = match]
        IN  IF match.homeScore = Unset \/ match.awayScore = Unset
            THEN unsetBranch(s0, match)
            ELSE completeBranch(s0, match)

-----------------------------------------------------------------------------
(* The state machine *)

\* state.matches = state.allMatches[state.currentRound] || [], as assigned by
\* loadData and changeRound: it keeps referring to that round's array when
\* state.currentRound is written alone
Matches ==
    IF matchesRound \in DOMAIN allMatches THEN allMatches[matchesRound] ELSE <<>>

ManagerState ==
    [standings |-> standings, matches |-> Matches,
     simulatedMatches |-> simulatedMatches]

\* state.matches aliases the round's array: a write to a match is seen there
Store(st) ==
    /\ standings' = st.standings
    /\ simulatedMatches' = st.simulatedMatches
    /\ allMatches' = IF matchesRound \in DOMAIN allMatches
                     THEN [allMatches EXCEPT ![matchesRound] = st.matches]
                     ELSE allMatches

NoProbe ==
    [stage |-> "off", team |-> <<>>, homeScore |-> 0, awayScore |-> 0,
     isHomeTeam |-> FALSE, result |-> <<>>]

\* history: the operation, its match id (0 when it has none), the ids that had
\* a ledger entry when it was called, and whether it repeats the previous one
Record(op, id) ==
    lastOp' = [op |-> op, id |-> id, had |-> DOMAIN simulatedMatches,
               again |-> (lastOp.op = op)]

\* DataManager.loadData, after the fetches resolved
LoadData ==
    \E data \in InitialStandingsData :
        /\ initialStandings = [i \in 1..Len(data) |-> deepClone(data[i])]
        /\ standings = [i \in 1..Len(data) |-> ensureTeamStats(data[i])]
        /\ allMatches = [r \in DOMAIN RoundFixtures |->
                            [i \in 1..Len(RoundFixtures[r]) |->
                                initializeMatch(RoundFixtures[r][i])]]
        /\ currentRound = MIN_ROUND
        /\ matchesRound = currentRound
        /\ pendingLoads = 0
        /\ simulatedMatches = EmptyMap
        /\ lastOp = [op |-> "loadData", id |-> 0, had |-> {}, again |-> FALSE]

Init == LoadData /\ probe = NoProbe

\* the change handler of a score input of a rendered match card
UpdateMatchScoreFrom(values) ==
    \E i \in 1..Len(Matches), field \in ScoreFields, value \in values :
        /\ Store(updateMatchScore(ManagerState, Matches[i].id, field, value))
        /\ Record("updateMatchScore", Matches[i].id)
        /\ UNCHANGED <<initialStandings, currentRound, matchesRound,
                       pendingLoads, probe>>

UpdateMatchScore == UpdateMatchScoreFrom(InputValues)

\* the simulate button
SimulateRoundFrom(randoms) ==
    \E draws \in [1..Len(Matches) -> randoms \X randoms] :
        /\ Store(simulateRound(ManagerState, draws))
        /\ Record("simulateRound", 0)
        /\ UNCHANGED <<initialStandings, currentRound, matchesRound,
                       pendingLoads, probe>>

SimulateRound == SimulateRoundFrom(RandomDraws)

\* the clear button
ClearRound ==
    /\ Store(clearRound(ManagerState))
    /\ Record("clearRound", 0)
    /\ UNCHANGED <<initialStandings, currentRound, matchesRound,
                       pendingLoads, probe>>

Next == UpdateMatchScore \/ SimulateRound \/ ClearRound

Spec == Init /\ [][Next]_vars

-----------------------------------------------------------------------------
(* The whole application: round navigation and resetChampionship, whose    *)
(* loadData awaits its fetches while the other handlers stay attached.      *)

\* values typed into the score inputs and random draws of this specification
AppInputValues == {Unset, Num(1)}

AppRandomDraws == {40}

\* mutant: the round is moved without looking at MIN_ROUND and MAX_ROUND
changeRoundUnclamped(round, direction) ==
    IF direction = "prev" THEN round - 1 ELSE round + 1

\* UIManager.changeRound
changeRound(round, direction) ==
    IF direction = "prev" /\ round > MIN_ROUND THEN round - 1
    ELSE IF direction = "next" /\ round < MAX_ROUND THEN round + 1
    ELSE round

\* mutant: the matches of the round entered are initialised again
ChangeRoundInitialisesMatches ==
    \E direction \in {"prev", "next"} :
        /\ changeRound(currentRound, direction) <= MaxRoundVisited
        /\ currentRound' = changeRound(currentRound, direction)
        /\ matchesRound' = currentRound'
        /\ allMatches' = [r \in DOMAIN allMatches |->
                            IF r = currentRound'
                            THEN [i \in 1..Len(RoundFixtures[r]) |->
                                     initializeMatch(RoundFixtures[r][i])]
                            ELSE allMatches[r]]
        /\ Record("changeRound", 0)
        /\ UNCHANGED <<standings, initialStandings, simulatedMatches,
                       pendingLoads, probe>>

\* the previous / next round buttons
ChangeRound ==
    \E direction \in {"prev", "next"} :
        /\ changeRound(currentRound, direction) <= MaxRoundVisited
        /\ currentRound' = changeRound(currentRound, direction)
        /\ matchesRound' = currentRound'
        /\ Record("changeRound", 0)
        /\ UNCHANGED <<standings, initialStandings, allMatches,
                       simulatedMatches, pendingLoads, probe>>

\* the reset button, confirmed: DataManager.resetChampionship up to the await
\* of loadData's fetches
ResetChampionship ==
    /\ pendingLoads < MaxPending
    /\ simulatedMatches' = EmptyMap
    /\ currentRound' = MIN_ROUND
    /\ pendingLoads' = pendingLoads + 1
    /\ Record("resetChampionship", 0)
    /\ UNCHANGED <<standings, initialStandings, allMatches, matchesRound,
                   probe>>

\* DataManager.loadData after its fetches resolved (the fetches are taken to
\* succeed)
LoadDataCompletes ==
    /\ pendingLoads > 0
    /\ \E data \in InitialStandingsData :
        /\ initialStandings' = [i \in 1..Len(data) |-> deepClone(data[i])]
        /\ standings' = [i \in 1..Len(data) |-> ensureTeamStats(data[i])]
    /\ allMatches' = [r \in DOMAIN RoundFixtures |->
                          [i \in 1..Len(RoundFixtures[r]) |->
                              initializeMatch(RoundFixtures[r][i])]]
    /\ matchesRound' = currentRound
    /\ pendingLoads' = pendingLoads - 1
    /\ Record("loadData", 0)
    /\ UNCHANGED <<currentRound, simulatedMatches, probe>>

NextApp ==
    \/ UpdateMatchScoreFrom(AppInputValues)
    \/ SimulateRoundFrom(AppRandomDraws)
    \/ ClearRound
    \/ ChangeRound
    \/ ResetChampionship
    \/ LoadDataCompletes

SpecApp == Init /\ [][NextApp]_vars

-----------------------------------------------------------------------------
(* The engine operations together with round navigation, without reset.    *)

RoundInputValues == {Unset, Num(0), Num(1)}

NextRounds ==
    \/ UpdateMatchScoreFrom(RoundInputValues)
    \/ SimulateRoundFrom(AppRandomDraws)
    \/ ClearRound
    \/ ChangeRound

SpecRounds == Init /\ [][NextRounds]_vars

-----------------------------------------------------------------------------
(* resetChampionship whose reload may fail: loadData catches the error of  *)
(* its fetches before it has assigned anything and returns false.           *)

InitReset ==
    /\ LoadData
    /\ probe = [stage |-> "app", failed |-> 0]

\* DataManager.loadData when a fetch is rejected or not ok: the catch block
LoadDataFails ==
    /\ pendingLoads > 0
    /\ probe.failed < MaxFailed
    /\ pendingLoads' = pendingLoads - 1
    /\ probe' = [probe EXCEPT !.failed = @ + 1]
    /\ Record("loadDataFailed", 0)
    /\ UNCHANGED <<standings, initialStandings, allMatches, currentRound,
                   simulatedMatches, matchesRound>>

NextReset ==
    \/ UpdateMatchScoreFrom(AppInputValues)
    \/ SimulateRoundFrom(AppRandomDraws)
    \/ ClearRound
    \/ ResetChampionship
    \/ LoadDataCompletes
    \/ LoadDataFails

SpecReset == InitReset /\ [][NextReset]_vars

-----------------------------------------------------------------------------
(* Navigation over the whole season: the round buttons, the Ctrl+arrow     *)
(* shortcuts and reset; rounds after the loaded fixtures have no matches.   *)

\* click on the previous / next round button
RoundButtonClicked ==
    \E direction \in {"prev", "next"} :
        /\ currentRound' = changeRound(currentRound, direction)
        /\ matchesRound' = currentRound'
        /\ Record("changeRound", 0)
        /\ UNCHANGED <<standings, initialStandings, allMatches,
                       simulatedMatches, pendingLoads, probe>>

\* Ctrl + ArrowLeft / ArrowRight: the handler tests the round itself before
\* it calls changeRound
ArrowKeyPressed ==
    \E key \in {"ArrowLeft", "ArrowRight"} :
        /\ IF key = "ArrowLeft"
           THEN /\ currentRound > MIN_ROUND
                /\ currentRound' = changeRound(currentRound, "prev")
           ELSE /\ currentRound < MAX_ROUND
                /\ currentRound' = changeRound(currentRound, "next")
        /\ matchesRound' = currentRound'
        /\ Record("changeRound", 0)
        /\ UNCHANGED <<standings, initialStandings, allMatches,
                       simulatedMatches, pendingLoads, probe>>

NextNav ==
    \/ RoundButtonClicked
    \/ ArrowKeyPressed
    \/ ResetChampionship
    \/ LoadDataCompletes

SpecNav == Init /\ [][NextNav]_vars

-----------------------------------------------------------------------------
(* MatchManager.updateMatchScore called with any match id: the ids of the  *)
(* fixtures of every round and one that no fixture has.                     *)

CalledIds ==
    UNION {{RoundFixtures[r][i].id : i \in 1..Len(RoundFixtures[r])} :
              r \in DOMAIN RoundFixtures} \cup {99}

UpdateMatchScoreCalled ==
    \E matchId \in CalledIds, field \in ScoreFields, value \in AppInputValues :
        /\ Store(updateMatchScore(ManagerState, matchId, field, value))
        /\ Record("updateMatchScore", matchId)
        /\ UNCHANGED <<initialStandings, currentRound, matchesRound,
                       pendingLoads, probe>>

NextCalls ==
    \/ UpdateMatchScoreCalled
    \/ SimulateRoundFrom(AppRandomDraws)
    \/ ClearRound
    \/ ChangeRound

SpecCalls == Init /\ [][NextCalls]_vars

-----------------------------------------------------------------------------
(* The start of the application: init awaits the first loadData, and the   *)
(* handlers exist only once setupEventListeners and renderMatches have run. *)

\* the module state of dataManager before the first loadData resolves
Unloaded ==
    /\ standings = <<>>
    /\ initialStandings = <<>>
    /\ allMatches = <<>>
    /\ currentRound = MIN_ROUND
    /\ matchesRound = 0
    /\ simulatedMatches = EmptyMap

initRegistersFirst(ok) ==
    [stage |-> IF ok THEN "ready" ELSE "failed",
     listeners |-> TRUE, inputs |-> ok]

\* init, after its await: what it leaves attached for a result ok of loadData
\* (listeners: setupEventListeners ran; inputs: renderMatches ran)
init(ok) ==
    IF ~ok
    THEN [stage |-> "failed", listeners |-> FALSE, inputs |-> FALSE]
    ELSE [stage |-> "ready", listeners |-> TRUE, inputs |-> TRUE]

\* init up to its await of loadData
InitStart ==
    /\ Unloaded
    /\ pendingLoads = 1
    /\ lastOp = [op |-> "init", id |-> 0, had |-> {}, again |-> FALSE]
    /\ probe = [stage |-> "loading", listeners |-> FALSE, inputs |-> FALSE]

\* the first loadData resolves, true after its assignments or false without
\* them, and init continues
InitLoadReturns ==
    /\ probe.stage = "loading"
    /\ \E ok \in BOOLEAN :
        /\ probe' = init(ok)
        /\ IF ok
           THEN /\ \E data \in InitialStandingsData :
                    /\ initialStandings'
                         = [i \in 1..Len(data) |-> deepClone(data[i])]
                    /\ standings'
                         = [i \in 1..Len(data) |-> ensureTeamStats(data[i])]
                /\ allMatches' = [r \in DOMAIN RoundFixtures |->
                                    [i \in 1..Len(RoundFixtures[r]) |->
                                        initializeMatch(RoundFixtures[r][i])]]
                /\ matchesRound' = currentRound
                /\ Record("loadData", 0)
           ELSE UNCHANGED <<initialStandings, standings, allMatches,
                            matchesRound, lastOp>>
    /\ pendingLoads' = 0
    /\ UNCHANGED <<currentRound, simulatedMatches>>

\* the handlers attached by setupEventListeners and by renderMatches
InputChanged == probe.inputs /\ UpdateMatchScoreFrom(AppInputValues)

SimulateClicked == probe.listeners /\ SimulateRoundFrom(AppRandomDraws)

ClearClicked == probe.listeners /\ ClearRound

RoundClicked == probe.listeners /\ ChangeRound

NextInit ==
    \/ InitLoadReturns
    \/ InputChanged
    \/ SimulateClicked
    \/ ClearClicked
    \/ RoundClicked

SpecInit == InitStart /\ [][NextInit]_vars

-----------------------------------------------------------------------------
(* Harness of StandingsCalculator.updateTeamStats: a team object of the    *)
(* loaded or re-sorted table, two integer scores and a side, applied with  *)
(* multiplier +1 and then reversed with multiplier -1.                      *)

ProbeScores == (0 - 1)..(MaxScore + 1)

ProbeTeams ==
    {standings[i] : i \in 1..Len(standings)}
        \cup {sortStandings(standings)[i] : i \in 1..Len(standings)}

InitStats ==
    /\ LoadData
    /\ probe \in [stage : {"input"}, team : ProbeTeams,
                  homeScore : ProbeScores, awayScore : ProbeScores,
                  isHomeTeam : BOOLEAN, result : {<<>>}]

ApplyStats ==
    /\ probe.stage = "input"
    /\ probe' = [probe EXCEPT
                    !.stage = "applied",
                    !.result = updateTeamStats(probe.team, probe.homeScore,
                                   probe.awayScore, probe.isHomeTeam, 1)]
    /\ UNCHANGED <<standings, initialStandings, allMatches, currentRound,
                   simulatedMatches, matchesRound, pendingLoads, lastOp>>

ReverseStats ==
    /\ probe.stage = "applied"
    /\ probe' = [probe EXCEPT
                    !.stage = "reversed",
                    !.result = updateTeamStats(probe.result, probe.homeScore,
                                   probe.awayScore, probe.isHomeTeam, 0 - 1)]
    /\ UNCHANGED <<standings, initialStandings, allMatches, currentRound,
                   simulatedMatches, matchesRound, pendingLoads, lastOp>>

NextStats == ApplyStats \/ ReverseStats

SpecStats == InitStats /\ [][NextStats]_vars

-----------------------------------------------------------------------------
(* Harness of StandingsCalculator.sortStandings: a table of three teams    *)
(* with distinct names whose sort keys range over 0 and 1, sorted as given *)
(* and sorted again after a permutation of its rows.                         *)

SortKeys ==
    [points : 0..1, victories : 0..1, balance_goals : 0..1, goal_pro : 0..1,
     goal_against : 0..1]

SortTeam(id, name, keys) == ("id" :> id) @@ ("name" :> name) @@ keys

\* the third row: one with every key, one without goal_against
ThirdRows ==
    {SortTeam(4, "Bahia", [points |-> 1, victories |-> 0, balance_goals |-> 1,
                           goal_pro |-> 1, goal_against |-> 1]),
     SortTeam(4, "Bahia", [points |-> 0, victories |-> 1, balance_goals |-> 1,
                           goal_pro |-> 0])}

SortTables ==
    {<<SortTeam(3, "Santos", k1), SortTeam(1, "Flamengo", k2), third>> :
        k1 \in SortKeys, k2 \in SortKeys, third \in ThirdRows}

InitSort ==
    /\ LoadData
    /\ \E table \in SortTables, p \in Permutations(1..3) :
         probe = [stage |-> "input", input |-> table,
                  permuted |-> [i \in 1..3 |-> table[p[i]]],
                  sorted |-> <<>>, sortedPermuted |-> <<>>]

\* sortStandings(input): the input array is copied by [...standings] and each
\* row by the spread in map, so the input is left as it was
SortInput ==
    /\ probe.stage = "input"
    /\ probe' = [probe EXCEPT !.stage = "sorted",
                              !.sorted = sortStandings(probe.input)]
    /\ UNCHANGED <<standings, initialStandings, allMatches, currentRound,
                   simulatedMatches, matchesRound, pendingLoads, lastOp>>

SortPermuted ==
    /\ probe.stage = "sorted"
    /\ probe' = [probe EXCEPT !.stage = "both",
                              !.sortedPermuted = sortStandings(probe.permuted)]
    /\ UNCHANGED <<standings, initialStandings, allMatches, currentRound,
                   simulatedMatches, matchesRound, pendingLoads, lastOp>>

NextSort == SortInput \/ SortPermuted

SpecSort == InitSort /\ [][NextSort]_vars

-----------------------------------------------------------------------------
(* Harness of the name tie-break of sortStandings: two-row tables whose    *)
(* rows may come without a name, as a fixture file can supply them.        *)

TieBreakKeys ==
    [points : 0..1, victories : {0}, balance_goals : 0..1, goal_pro : {1},
     goal_against : 0..1]

TieBreakTables ==
    {<<r1, r2>> :
        r1 \in {SortTeam(3, "Santos", k) : k \in TieBreakKeys}
                 \cup {("id" :> 3) @@ k : k \in TieBreakKeys},
        r2 \in {SortTeam(1, "Flamengo", k) : k \in TieBreakKeys}
                 \cup {("id" :> 1) @@ k : k \in TieBreakKeys}}

InitTieBreak ==
    /\ LoadData
    /\ \E table \in TieBreakTables :
         probe = [stage |-> "input", input |-> table,
                  outcome |-> [threw |-> FALSE, value |-> <<>>]]

\* sortStandings(input); which row the engine passes as a is its own choice
SortTwo ==
    /\ probe.stage = "input"
    /\ \E first \in 1..2 :
         probe' = [probe EXCEPT !.stage = "sorted",
                                !.outcome = sortStandingsOfTwo(probe.input, first)]
    /\ UNCHANGED <<standings, initialStandings, allMatches, currentRound,
                   simulatedMatches, matchesRound, pendingLoads, lastOp>>

NextTieBreak == SortTwo

SpecTieBreak == InitTieBreak /\ [][NextTieBreak]_vars

-----------------------------------------------------------------------------
(* Harness of StandingsCalculator.processMatchResult: the loaded or the     *)
(* sorted table, a result between any two team ids, id 5 being in no table, *)
(* applied or reversed.                                                      *)

ResultTeamIds == 1..5

ResultTables == {standings, sortStandings(standings)}

InitResult ==
    /\ LoadData
    /\ \E table \in ResultTables,
          matchResult \in [matchId : {1}, homeTeamId : ResultTeamIds,
                           awayTeamId : ResultTeamIds,
                           homeScore : ProbeScores, awayScore : ProbeScores],
          isReversing \in BOOLEAN :
         probe = [stage |-> "input", table |-> table,
                  matchResult |-> matchResult, isReversing |-> isReversing,
                  result |-> <<>>]

ProcessMatchResult ==
    /\ probe.stage = "input"
    /\ probe' = [probe EXCEPT
                    !.stage = "done",
                    !.result = processMatchResult(probe.table, probe.matchResult,
                                                  probe.isReversing)]
    /\ UNCHANGED <<standings, initialStandings, allMatches, currentRound,
                   simulatedMatches, matchesRound, pendingLoads, lastOp>>

NextResult == ProcessMatchResult

SpecResult == InitResult /\ [][NextResult]_vars

-----------------------------------------------------------------------------
(* Harness of StandingsCalculator.getPositionChanges: the new snapshot is a *)
(* sorted table of some of three teams; the old one is such a table too, or *)
(* the loaded table, whose rows have no position yet (first render).        *)

SnapshotIds == 1..3

Arrangements ==
    {s \in UNION {[1..n -> SnapshotIds] : n \in 0..3} :
        \A i \in 1..Len(s) : \A j \in 1..Len(s) : i # j => s[i] # s[j]}

Snapshot(s) == [i \in 1..Len(s) |-> [id |-> s[i], position |-> i]]

Unpositioned(s) == [i \in 1..Len(s) |-> [id |-> s[i]]]

NewSnapshots == {Snapshot(s) : s \in Arrangements}

OldSnapshots == NewSnapshots \cup {Unpositioned(<<1, 2, 3>>)}

InitChanges ==
    /\ LoadData
    /\ \E new \in NewSnapshots, old \in OldSnapshots :
         probe = [stage |-> "input", newStandings |-> new,
                  oldStandings |-> old, changes |-> <<>>]

GetPositionChanges ==
    /\ probe.stage = "input"
    /\ probe' = [probe EXCEPT
                    !.stage = "done",
                    !.changes = getPositionChanges(probe.newStandings,
                                                   probe.oldStandings)]
    /\ UNCHANGED <<standings, initialStandings, allMatches, currentRound,
                   simulatedMatches, matchesRound, pendingLoads, lastOp>>

NextChanges == GetPositionChanges

SpecChanges == InitChanges /\ [][NextChanges]_vars

-----------------------------------------------------------------------------
(* The handlers together with the rendering that ends each of them:        *)
(* renderStandings compares the freshly sorted table with the snapshot of   *)
(* the previous rendering and then replaces that snapshot.                  *)

\* mutant: the snapshot of the previous rendering is kept
renderStandingsKeepsSnapshot(table, previousStandings) ==
    LET sorted == sortStandings(table)
    IN  [previousStandings |-> sortStandings(previousStandings),
         changes |-> getPositionChanges(sorted, previousStandings)]

\* UIRenderer.renderStandings: the changes it computes and the snapshot it
\* leaves in state.previousStandings
renderStandings(table, previousStandings) ==
    LET sorted == sortStandings(table)
    IN  [previousStandings |-> sorted,
         changes |-> getPositionChanges(sorted, previousStandings)]

RenderInputValues == {Unset, Num(0), Num(1)}

\* loadData snapshots the loaded table and init renders it
InitRender ==
    /\ LoadData
    /\ probe = renderStandings(standings, standings)

InputChangedAndRendered ==
    /\ \E i \in 1..Len(Matches), field \in ScoreFields,
          value \in RenderInputValues :
         /\ Store(updateMatchScore(ManagerState, Matches[i].id, field, value))
         /\ Record("updateMatchScore", Matches[i].id)
    /\ probe' = renderStandings(standings', probe.previousStandings)
    /\ UNCHANGED <<initialStandings, currentRound, matchesRound, pendingLoads>>

SimulateClickedAndRendered ==
    /\ \E draws \in [1..Len(Matches) -> RandomDraws \X RandomDraws] :
         /\ Store(simulateRound(ManagerState, draws))
         /\ Record("simulateRound", 0)
    /\ probe' = renderStandings(standings', probe.previousStandings)
    /\ UNCHANGED <<initialStandings, currentRound, matchesRound, pendingLoads>>

ClearClickedAndRendered ==
    /\ Store(clearRound(ManagerState))
    /\ Record("clearRound", 0)
    /\ probe' = renderStandings(standings', probe.previousStandings)
    /\ UNCHANGED <<initialStandings, currentRound, matchesRound, pendingLoads>>

NextRender ==
    \/ InputChangedAndRendered
    \/ SimulateClickedAndRendered
    \/ ClearClickedAndRendered

SpecRender == InitRender /\ [][NextRender]_vars

-----------------------------------------------------------------------------
(* What the standings should hold, stated from the match results alone:     *)
(* each result counts one game for both sides, the goals of each side, and  *)
(* one outcome with 3 points for a win and 1 for a draw.                     *)

Accumulators ==
    {"games", "victories", "draws", "defeats", "goal_pro", "goal_against",
     "points"}

TeamIds == {standings[i].id : i \in 1..Len(standings)}

TeamById(table, id) == table[CHOOSE i \in 1..Len(table) : table[i].id = id]

\* the loaded value of an accumulator, a missing column counting as 0
LoadedValue(id, f) ==
    LET row == TeamById(initialStandings, id)
    IN  IF Has(row, f) THEN row[f] ELSE 0

\* what a result homeScore-awayScore adds to accumulator f of one side
Share(scored, conceded, f) ==
    CASE f = "games" -> 1
      [] f = "goal_pro" -> scored
      [] f = "goal_against" -> conceded
      [] f = "victories" -> IF scored > conceded THEN 1 ELSE 0
      [] f = "draws" -> IF scored = conceded THEN 1 ELSE 0
      [] f = "defeats" -> IF scored < conceded THEN 1 ELSE 0
      [] f = "points" -> IF scored > conceded THEN 3
                         ELSE IF scored = conceded THEN 1 ELSE 0

\* what the scores of one match add for the team with this id
MatchShare(match, homeScore, awayScore, id, f) ==
    IF id = match.homeTeam.id THEN Share(homeScore, awayScore, f)
    ELSE IF id = match.awayTeam.id THEN Share(awayScore, homeScore, f)
    ELSE 0

BothSet(match) == match.homeScore # Unset /\ match.awayScore # Unset

\* the results entered in the score fields of matches i..: a match counts iff
\* both scores are set; the match with id skip is left out
RECURSIVE ScoreTotalFrom(_, _, _, _, _)
ScoreTotalFrom(matches, i, skip, id, f) ==
    IF i > Len(matches) THEN 0
    ELSE (IF BothSet(matches[i]) /\ matches[i].id # skip
          THEN MatchShare(matches[i], matches[i].homeScore[1],
                          matches[i].awayScore[1], id, f)
          ELSE 0)
         + ScoreTotalFrom(matches, i + 1, skip, id, f)

ScoreTotal(matches, id, f) == ScoreTotalFrom(matches, 1, 0, id, f)

\* the results recorded in a ledger for matches i..
RECURSIVE LedgerTotalFrom(_, _, _, _, _)
LedgerTotalFrom(ledger, matches, i, id, f) ==
    IF i > Len(matches) THEN 0
    ELSE (IF matches[i].id \in DOMAIN ledger
          THEN MatchShare(matches[i], ledger[matches[i].id].homeScore[1],
                          ledger[matches[i].id].awayScore[1], id, f)
          ELSE 0)
         + LedgerTotalFrom(ledger, matches, i + 1, id, f)

LedgerTotal(ledger, matches, id, f) == LedgerTotalFrom(ledger, matches, 1, id, f)

MatchById(matchId) == Matches[CHOOSE i \in 1..Len(Matches) : Matches[i].id = matchId]

HalfEntered(match) ==
    (match.homeScore = Unset) # (match.awayScore = Unset)

SomeHalfEntered == \E i \in 1..Len(Matches) : HalfEntered(Matches[i])

-----------------------------------------------------------------------------
(* Claims *)

\* C1: as long as the round is not changed, after any sequence of
\* updateMatchScore, simulateRound and clearRound every accumulator of every
\* team equals its loaded value plus, once, each match of the round whose two
\* scores are set now; incomplete matches add nothing.
C1_StandingsReflectCompleteMatches ==
    \A i \in 1..Len(standings) : \A f \in Accumulators :
        standings[i][f]
            = LoadedValue(standings[i].id, f)
              + ScoreTotal(Matches, standings[i].id, f)

\* a complete match that was edited while complete, beside a half-entered one
C1_Witness ==
    /\ lastOp.op = "updateMatchScore"
    /\ lastOp.id \in lastOp.had
    /\ lastOp.id \in DOMAIN simulatedMatches
    /\ SomeHalfEntered

LedgerMatchesScores ==
    \A i \in 1..Len(Matches) :
        LET m == Matches[i]
        IN  /\ MapHas(simulatedMatches, m.id)
                <=> (m.homeScore # Unset /\ m.awayScore # Unset)
            /\ MapHas(simulatedMatches, m.id) =>
                /\ simulatedMatches[m.id].homeScore = m.homeScore
                /\ simulatedMatches[m.id].awayScore = m.awayScore

\* every step moves the standings by the entries it created, replaced or deleted
LedgerTransition ==
    \A i \in 1..Len(standings) : \A f \in Accumulators :
        TeamById(standings', standings[i].id)[f] - standings[i][f]
            = LedgerTotal(simulatedMatches', Matches', standings[i].id, f)
              - LedgerTotal(simulatedMatches, Matches, standings[i].id, f)

\* C2: in every state reached by updateMatchScore, simulateRound and
\* clearRound a match has a ledger entry iff both of its scores are set, the
\* entry equals the scores, and each step changes the standings by exactly
\* the entries it creates (apply), replaces (reverse old, apply new) or
\* deletes (reverse).
C2_LedgerIffComplete ==
    [][LedgerMatchesScores' /\ LedgerTransition]_vars

\* an entry was deleted by unsetting a score while the other match has one
C2_Witness ==
    /\ lastOp.op = "updateMatchScore"
    /\ lastOp.id \in lastOp.had
    /\ lastOp.id \notin DOMAIN simulatedMatches
    /\ HalfEntered(MatchById(lastOp.id))
    /\ DOMAIN simulatedMatches # {}

\* C3: updateTeamStats with multiplier +1 followed by updateTeamStats with the
\* same scores and side and multiplier -1 gives back the team, field by field.
C3_ApplyThenReverseIsIdentity ==
    probe.stage = "reversed" => probe.result = probe.team

\* a defeat was applied to and taken back from a team with no defeats
C3_Witness ==
    /\ probe.stage = "reversed"
    /\ probe.isHomeTeam
    /\ probe.homeScore < probe.awayScore
    /\ probe.team.defeats = 0
    /\ probe.result = probe.team

\* the two teams of a match as they would stand had its present result been
\* entered directly while the match was unset
DirectEntry(match, id) ==
    LET unsetState ==
            [f \in Accumulators |->
                LoadedValue(id, f)
                + ScoreTotalFrom(Matches, 1, match.id, id, f)]
    IN  updateTeamStats(unsetState, match.homeScore[1], match.awayScore[1],
                        id = match.homeTeam.id, 1)

\* C4: after a complete match is edited through updateMatchScore and is still
\* complete, its two teams hold the stats that entering the new scores
\* directly from the unset state gives, not a blend of old and new.
C4_EditEqualsDirectEntry ==
    (/\ lastOp.op = "updateMatchScore"
     /\ lastOp.id \in lastOp.had
     /\ lastOp.id \in DOMAIN simulatedMatches)
    => LET match == MatchById(lastOp.id)
       IN  \A id \in {match.homeTeam.id, match.awayTeam.id} :
             \A f \in Accumulators \cup {"balance_goals"} :
               TeamById(standings, id)[f] = DirectEntry(match, id)[f]

\* match 1 was complete, was edited, and now stands at 0-0
C4_Witness ==
    /\ lastOp.op = "updateMatchScore"
    /\ lastOp.id = 1
    /\ 1 \in lastOp.had
    /\ 1 \in DOMAIN simulatedMatches
    /\ simulatedMatches[1] = [homeScore |-> Num(0), awayScore |-> Num(0)]
    /\ TeamById(standings, 1).draws = LoadedValue(1, "draws") + 1

\* C5: after any sequence of applied and reversed results every team of the
\* loaded standings has points = 3 * victories + draws.
C5_PointsInvariant ==
    \A i \in 1..Len(standings) :
        standings[i].points = 3 * standings[i].victories + standings[i].draws

\* a result was reversed and a team drew and won more than it had when loaded
C5_Witness ==
    /\ lastOp.op = "updateMatchScore"
    /\ lastOp.id \in lastOp.had
    /\ \E id \in TeamIds :
         TeamById(standings, id).draws > LoadedValue(id, "draws")
    /\ \E id \in TeamIds :
         TeamById(standings, id).victories > LoadedValue(id, "victories")

\* C6: after every update, the defaulting of missing draws and defeats
\* included, every team has games = victories + draws + defeats.
C6_GamesInvariant ==
    \A i \in 1..Len(standings) :
        standings[i].games
            = standings[i].victories + standings[i].draws + standings[i].defeats

\* a team loaded without a defeats column has lost a match
C6_Witness ==
    \E id \in TeamIds :
        /\ ~Has(TeamById(initialStandings, id), "defeats")
        /\ TeamById(standings, id).defeats > 0

\* C7: from load onward every team has balance_goals = goal_pro - goal_against.
C7_BalanceInvariant ==
    \A i \in 1..Len(standings) :
        standings[i].balance_goals
            = standings[i].goal_pro - standings[i].goal_against

\* a team loaded without goal_against has conceded and its balance went down
C7_Witness ==
    \E id \in TeamIds :
        /\ ~Has(TeamById(initialStandings, id), "goal_against")
        /\ TeamById(standings, id).goal_against > 0
        /\ TeamById(standings, id).balance_goals
               < TeamById(initialStandings, id).goal_pro

\* C8: a clearRound that follows a clearRound changes neither the standings,
\* nor the ledger, nor any match score.
C8_SecondClearChangesNothing ==
    [][(lastOp.op = "clearRound" /\ lastOp'.op = "clearRound")
        => /\ standings' = standings
           /\ simulatedMatches' = simulatedMatches
           /\ allMatches' = allMatches]_vars

\* clearRound ran twice in a row, a half-entered match still on the card
C8_Witness ==
    /\ lastOp.op = "clearRound"
    /\ lastOp.again
    /\ SomeHalfEntered

\* C9: clearRound unsets both scores and drops the entry of exactly the
\* current-round matches that had a ledger entry, takes their recorded
\* effect out of the standings, and leaves the score fields of every other
\* match, a half-entered one included, as they were.
C9_ClearRoundFrame ==
    [][lastOp'.op = "clearRound" =>
        /\ \A i \in 1..Len(Matches) :
             IF MapHas(simulatedMatches, Matches[i].id)
             THEN /\ ~MapHas(simulatedMatches', Matches[i].id)
                  /\ Matches'[i].homeScore = Unset
                  /\ Matches'[i].awayScore = Unset
             ELSE /\ Matches'[i].homeScore = Matches[i].homeScore
                  /\ Matches'[i].awayScore = Matches[i].awayScore
        /\ \A i \in 1..Len(standings) : \A f \in Accumulators :
             TeamById(standings', standings[i].id)[f]
                = standings[i][f]
                  - LedgerTotal(simulatedMatches, Matches, standings[i].id, f)
      ]_vars

\* clearRound removed an entry and a half-entered match kept its score
C9_Witness ==
    /\ lastOp.op = "clearRound"
    /\ lastOp.had # {}
    /\ SomeHalfEntered

\* C10 as stated: simulateRound leaves every score field that held a set
\* value before the call with the same value after the call.
C10_NoSetFieldOverwritten ==
    [][lastOp'.op = "simulateRound" =>
        \A i \in 1..Len(Matches) : \A field \in ScoreFields :
            Matches[i][field] # Unset => Matches'[i][field] = Matches[i][field]
      ]_vars

SimulatedScores == {Num(generateRandomScore(r)) : r \in RandomDraws}

\* C10 amended: simulateRound leaves every match that was complete before
\* the call with the same two scores and the same ledger entry; a match that
\* was not complete, one with a single score set included, gets both score
\* fields replaced by simulated scores.
C10_CompleteMatchesKept ==
    [][lastOp'.op = "simulateRound" =>
        \A i \in 1..Len(Matches) :
            IF isMatchComplete(Matches[i])
            THEN /\ Matches'[i] = Matches[i]
                 /\ simulatedMatches'[Matches[i].id]
                        = simulatedMatches[Matches[i].id]
            ELSE /\ Matches'[i].homeScore \in SimulatedScores
                 /\ Matches'[i].awayScore \in SimulatedScores
      ]_vars

\* simulateRound kept a complete match and filled another one
C10_Witness ==
    /\ lastOp.op = "simulateRound"
    /\ lastOp.had # {}
    /\ DOMAIN simulatedMatches # lastOp.had

\* the weight table gives a score in 0..6 for every draw, 0 when no bucket is
\* selected, and every score in 0..6 for some draw
DrawRange ==
    /\ \A r \in DrawValues : generateRandomScore(r) \in 0..6
    /\ generateRandomScore(101) = 0
    /\ \A n \in 0..6 : \E r \in DrawValues : generateRandomScore(r) = n

\* C11: after simulateRound on a non-empty round every match of the round is
\* complete and has a ledger entry equal to its scores, and every score the
\* call wrote is an integer in 0..6.
C11_SimulateRoundCompletesRound ==
    [][(lastOp'.op = "simulateRound" /\ Len(Matches) > 0) =>
        /\ DrawRange
        /\ \A i \in 1..Len(Matches') :
             /\ isMatchComplete(Matches'[i])
             /\ MapHas(simulatedMatches', Matches'[i].id)
             /\ simulatedMatches'[Matches'[i].id].homeScore = Matches'[i].homeScore
             /\ simulatedMatches'[Matches'[i].id].awayScore = Matches'[i].awayScore
             /\ ~isMatchComplete(Matches[i]) =>
                    \A field \in ScoreFields :
                        /\ Matches'[i][field] # Unset
                        /\ Matches'[i][field][1] \in 0..6
      ]_vars

\* simulateRound filled a round in which one match was already complete
C11_Witness ==
    /\ lastOp.op = "simulateRound"
    /\ Cardinality(lastOp.had) = 1
    /\ \A i \in 1..Len(Matches) :
         /\ isMatchComplete(Matches[i])
         /\ MapHas(simulatedMatches, Matches[i].id)

\* the matches of every round, as a set
AllRoundMatches ==
    UNION {{allMatches[r][i] : i \in 1..Len(allMatches[r])} :
              r \in DOMAIN allMatches}

\* C12: right after the reload of a confirmed resetChampionship completes the
\* ledger is empty, every match of every round has both scores unset, the
\* standings hold the loaded stats of every team, and the round is MIN_ROUND.
C12_ResetRestoresLoadedState ==
    lastOp.op = "loadData" =>
        /\ DOMAIN simulatedMatches = {}
        /\ \A m \in AllRoundMatches : m.homeScore = Unset /\ m.awayScore = Unset
        /\ standings = [i \in 1..Len(initialStandings) |->
                            ensureTeamStats(initialStandings[i])]
        /\ currentRound = MIN_ROUND

\* every result recorded in the ledger is contained in the standings: each
\* accumulator is its loaded value plus the ledger's results
LedgerContainedInStandings ==
    \A i \in 1..Len(standings) : \A f \in Accumulators :
        standings[i][f]
            = LoadedValue(standings[i].id, f)
              + LedgerTotal(simulatedMatches,
                            allMatches[MIN_ROUND] \o allMatches[MIN_ROUND + 1],
                            standings[i].id, f)

\* C13: no simulateRound, clearRound or updateMatchScore runs while the
\* loadData of a resetChampionship is in flight, and once no reload is in
\* flight the ledger holds no result that the standings do not contain.
C13_NoOperationDuringReload ==
    [][/\ pendingLoads > 0 =>
              lastOp'.op \notin {"simulateRound", "clearRound", "updateMatchScore"}
       /\ pendingLoads' = 0 => LedgerContainedInStandings'
      ]_vars

\* C14: every value stored in a match's homeScore or awayScore, hence every
\* value the input handler handed to updateMatchScore, is the unset marker or
\* an integer in 0..MAX_GOALS.
C14_ScoresWithinRange ==
    \A m \in AllRoundMatches : \A field \in ScoreFields :
        m[field] = Unset \/ m[field][1] \in 0..MAX_GOALS

\* C15: every accumulator of every team is a non-negative integer and is not
\* below its loaded value.
C15_AccumulatorsNotBelowLoaded ==
    \A i \in 1..Len(standings) : \A f \in Accumulators :
        /\ standings[i][f] \in Nat
        /\ standings[i][f] >= LoadedValue(standings[i].id, f)

\* the sort key of the standings table, smaller meaning further up
SortKey(team) ==
    <<0 - team.points, 0 - team.victories, 0 - team.balance_goals,
      0 - team.goal_pro, OrZero(team, "goal_against"), NameRank(team.name)>>

\* the first differing component decides
RECURSIVE LexLess(_, _, _)
LexLess(k1, k2, n) ==
    IF n > Len(k1) THEN FALSE
    ELSE IF k1[n] # k2[n] THEN k1[n] < k2[n]
    ELSE LexLess(k1, k2, n + 1)

Ahead(a, b) == LexLess(SortKey(a), SortKey(b), 1)

LevelOnNumbers(a, b) ==
    \A n \in 1..5 : SortKey(a)[n] = SortKey(b)[n]

WithoutPosition(team) == [f \in DOMAIN team \ {"position"} |-> team[f]]

\* C16: sortStandings gives the same sequence, positions included, for a table
\* of teams with pairwise distinct names and for any permutation of it.
C16_SortIndependentOfInputOrder ==
    probe.stage = "both" => probe.sorted = probe.sortedPermuted

\* a permuted table in which two teams are level on every number
C16_Witness ==
    /\ probe.stage = "both"
    /\ probe.permuted # probe.input
    /\ LevelOnNumbers(probe.input[1], probe.input[2])
    /\ probe.sorted = probe.sortedPermuted

\* C17: in the output of sortStandings every team is ahead of every team
\* placed after it under the key points desc, victories desc, balance_goals
\* desc, goal_pro desc, goal_against asc, name asc, first difference deciding.
C17_SortedByKey ==
    probe.stage \in {"sorted", "both"} =>
        \A i \in 1..Len(probe.sorted) : \A j \in 1..Len(probe.sorted) :
            i < j => Ahead(probe.sorted[i], probe.sorted[j])

\* Santos was given before Flamengo, level on every number, and Flamengo is
\* placed first
C17_Witness ==
    /\ probe.stage = "sorted"
    /\ LevelOnNumbers(probe.input[1], probe.input[2])
    /\ \E i \in 1..2 :
         /\ probe.sorted[i].name = "Flamengo"
         /\ probe.sorted[i + 1].name = "Santos"

\* C18: the output of sortStandings has the rows of its input, each once and
\* with the same stats, in positions 1..N equal to index + 1 (0-based index),
\* and the input is left as it was.
C18_SortIsPermutationWithPositions ==
    [][probe'.stage = "sorted" =>
        /\ probe'.input = probe.input
        /\ Len(probe'.sorted) = Len(probe.input)
        /\ \A i \in 1..Len(probe.input) :
             Cardinality({j \in 1..Len(probe'.sorted) :
                            WithoutPosition(probe'.sorted[j]) = probe.input[i]}) = 1
        /\ \A j \in 1..Len(probe'.sorted) : probe'.sorted[j].position = j
      ]_vars

\* the sort moved the first row of the input down
C18_Witness ==
    /\ probe.stage = "sorted"
    /\ probe.sorted[1].id # probe.input[1].id
    /\ probe.sorted[3].id = probe.input[1].id
    /\ probe.sorted[3].position = 3

\* the step applied or reversed a result: it created, replaced or deleted a
\* ledger entry
AppliedOrReversed ==
    \/ /\ lastOp'.op = "updateMatchScore"
       /\ lastOp'.id \in DOMAIN simulatedMatches \cup DOMAIN simulatedMatches'
    \/ /\ lastOp'.op \in {"simulateRound", "clearRound"}
       /\ DOMAIN simulatedMatches' # DOMAIN simulatedMatches

FullySorted(table) ==
    /\ \A i \in 1..Len(table) : \A j \in 1..Len(table) :
         i < j => Ahead(table[i], table[j])
    /\ \A i \in 1..Len(table) :
         Has(table[i], "position") /\ table[i].position = i

\* C19: after every updateMatchScore, simulateRound or clearRound that applies
\* or reverses a result the standings are sorted by the sort key, carry the
\* positions 1..N, and hold exactly the loaded team ids, each once.
C19_StandingsKeptSorted ==
    [][AppliedOrReversed =>
        /\ FullySorted(standings')
        /\ Len(standings') = Len(initialStandings)
        /\ {standings'[i].id : i \in 1..Len(standings')}
             = {initialStandings[i].id : i \in 1..Len(initialStandings)}
      ]_vars

\* a result moved the team loaded in first place down the table
C19_Witness ==
    /\ lastOp.op \in {"updateMatchScore", "simulateRound"}
    /\ DOMAIN simulatedMatches # {}
    /\ standings[1].id # initialStandings[1].id
    /\ FullySorted(standings)

\* the position of the team with this id in a snapshot; the team is in the
\* snapshot when it has a row with a position there
InSnapshot(table, id) ==
    \E i \in 1..Len(table) : table[i].id = id /\ Has(table[i], "position")

PositionIn(table, id) ==
    table[CHOOSE i \in 1..Len(table) : table[i].id = id].position

\* C20: for every team in both snapshots getPositionChanges gives 'none' and 0
\* when the positions are equal, 'up' and old - new when the new position is
\* smaller, and 'down' and new - old otherwise.
C20_PositionChanges ==
    probe.stage = "done" =>
        \A id \in SnapshotIds :
            (InSnapshot(probe.newStandings, id)
                /\ InSnapshot(probe.oldStandings, id)) =>
            LET newPosition == PositionIn(probe.newStandings, id)
                oldPosition == PositionIn(probe.oldStandings, id)
            IN  /\ id \in DOMAIN probe.changes
                /\ probe.changes[id] =
                     IF newPosition = oldPosition
                     THEN [direction |-> "none", positionsChanged |-> 0]
                     ELSE IF newPosition < oldPosition
                     THEN [direction |-> "up",
                           positionsChanged |-> oldPosition - newPosition]
                     ELSE [direction |-> "down",
                           positionsChanged |-> newPosition - oldPosition]

\* old A:1 B:2 C:3, new B:1 A:2 C:3: B up 1, A down 1, C none 0
C20_Witness ==
    /\ probe.stage = "done"
    /\ probe.oldStandings = Snapshot(<<1, 2, 3>>)
    /\ probe.newStandings = Snapshot(<<2, 1, 3>>)
    /\ probe.changes[2] = [direction |-> "up", positionsChanged |-> 1]
    /\ probe.changes[1] = [direction |-> "down", positionsChanged |-> 1]
    /\ probe.changes[3] = [direction |-> "none", positionsChanged |-> 0]

\* C21: the map of getPositionChanges has an entry for a team id exactly when
\* the team is in the new snapshot and has a position in the old one; a team
\* absent from the old snapshot has no entry.
C21_EntriesOnlyForKnownTeams ==
    probe.stage = "done" =>
        DOMAIN probe.changes
            = {id \in {probe.newStandings[i].id :
                            i \in 1..Len(probe.newStandings)} :
                  InSnapshot(probe.oldStandings, id)}

\* one team of the new snapshot was in the old one and another was not
C21_Witness ==
    /\ probe.stage = "done"
    /\ Len(probe.newStandings) = 3
    /\ Len(probe.oldStandings) = 1
    /\ DOMAIN probe.changes = {probe.oldStandings[1].id}

\* C22: applying a result (h, a) gives a team games + 1, its own goals scored
\* and conceded, and exactly one outcome: victories + 1 and points + 3 for
\* the side with more goals, defeats + 1 and no points for the other, draws
\* + 1 and points + 1 for both when h = a.
C22_ApplyAddsOneResult ==
    probe.stage = "applied" =>
        LET scored == IF probe.isHomeTeam THEN probe.homeScore
                      ELSE probe.awayScore
            conceded == IF probe.isHomeTeam THEN probe.awayScore
                        ELSE probe.homeScore
        IN  /\ \A f \in Accumulators :
                 probe.result[f] = probe.team[f] + Share(scored, conceded, f)
            /\ probe.result.balance_goals
                 = probe.team.balance_goals + scored - conceded

\* 2-1 applied to the away team: a defeat, no points, 1 scored, 2 conceded
C22_Witness ==
    /\ probe.stage = "applied"
    /\ probe.homeScore = 2 /\ probe.awayScore = 1
    /\ ~probe.isHomeTeam
    /\ probe.result.games = probe.team.games + 1
    /\ probe.result.defeats = probe.team.defeats + 1
    /\ probe.result.points = probe.team.points
    /\ probe.result.goal_pro = probe.team.goal_pro + 1
    /\ probe.result.goal_against = probe.team.goal_against + 2
    /\ probe.result.balance_goals = probe.team.balance_goals - 1

IndexOf(table, id) == CHOOSE i \in 1..Len(table) : table[i].id = id

TableIds(table) == {table[i].id : i \in 1..Len(table)}

\* C23: processMatchResult changes the stats of no team other than the ones
\* whose id is homeTeamId or awayTeamId; every other team keeps every field,
\* the position apart.
C23_OtherTeamsPassThrough ==
    probe.stage = "done" =>
        /\ TableIds(probe.result) = TableIds(probe.table)
        /\ \A i \in 1..Len(probe.table) :
             probe.table[i].id \notin {probe.matchResult.homeTeamId,
                                       probe.matchResult.awayTeamId}
             => WithoutPosition(TeamById(probe.result, probe.table[i].id))
                    = WithoutPosition(probe.table[i])

\* a team that did not play moved to another place with its stats unchanged
C23_Witness ==
    /\ probe.stage = "done"
    /\ probe.matchResult.homeTeamId = 3
    /\ probe.matchResult.awayTeamId = 4
    /\ IndexOf(probe.result, 2) # IndexOf(probe.table, 2)
    /\ WithoutPosition(TeamById(probe.result, 2))
         = WithoutPosition(TeamById(probe.table, 2))

\* C24: a result whose homeTeamId or awayTeamId is the id of no team of the
\* table is processed all the same: the unknown side changes nothing, the
\* known side (if any) gets its result, and the table comes back sorted.
C24_UnknownTeamIsSkipped ==
    (/\ probe.stage = "done"
     /\ \/ probe.matchResult.homeTeamId \notin TableIds(probe.table)
        \/ probe.matchResult.awayTeamId \notin TableIds(probe.table))
    => LET r == probe.matchResult
           multiplier == IF probe.isReversing THEN 0 - 1 ELSE 1
       IN  /\ FullySorted(probe.result)
           /\ TableIds(probe.result) = TableIds(probe.table)
           /\ \A i \in 1..Len(probe.table) : \A f \in Accumulators :
                TeamById(probe.result, probe.table[i].id)[f]
                    = probe.table[i][f]
                      + multiplier
                        * (IF probe.table[i].id = r.homeTeamId
                           THEN Share(r.homeScore, r.awayScore, f)
                           ELSE IF probe.table[i].id = r.awayTeamId
                           THEN Share(r.awayScore, r.homeScore, f)
                           ELSE 0)

\* the home team is unknown and the away team got its defeat
C24_Witness ==
    /\ probe.stage = "done"
    /\ probe.matchResult.homeTeamId = 5
    /\ probe.matchResult.awayTeamId = 2
    /\ probe.matchResult.homeScore > probe.matchResult.awayScore
    /\ ~probe.isReversing
    /\ TeamById(probe.result, 2).defeats = TeamById(probe.table, 2).defeats + 1
    /\ FullySorted(probe.result)

\* C25: reversing a match that has no ledger entry does nothing: an
\* updateMatchScore that leaves such a match with an unset score, and a
\* clearRound over matches none of which has an entry, change neither the
\* standings nor the ledger (and clearRound no score).
C25_ReverseWithoutEntryIsNoOp ==
    [][/\ (/\ lastOp'.op = "updateMatchScore"
           /\ ~MapHas(simulatedMatches, lastOp'.id)
           /\ \E i \in 1..Len(Matches') :
                /\ Matches'[i].id = lastOp'.id
                /\ ~isMatchComplete(Matches'[i]))
          => (standings' = standings /\ simulatedMatches' = simulatedMatches)
       /\ (/\ lastOp'.op = "clearRound"
           /\ \A i \in 1..Len(Matches) :
                ~MapHas(simulatedMatches, Matches[i].id))
          => /\ standings' = standings
             /\ simulatedMatches' = simulatedMatches
             /\ allMatches' = allMatches
      ]_vars

\* a score was typed into a match without an entry while the other match of
\* the round has one
C25_Witness ==
    /\ lastOp.op = "updateMatchScore"
    /\ lastOp.id \notin lastOp.had
    /\ lastOp.had # {}
    /\ HalfEntered(MatchById(lastOp.id))
    /\ DOMAIN simulatedMatches = lastOp.had

\* C26: a match with exactly one score set, 0 included, has no ledger entry
\* and adds nothing to the standings; a match with scores 0 and 0 is
\* complete, has the entry 0-0 and counts as a game, a draw and a point for
\* both teams.
C26_UnsetIsNotZero ==
    /\ \A i \in 1..Len(Matches) :
         /\ HalfEntered(Matches[i]) => ~MapHas(simulatedMatches, Matches[i].id)
         /\ (Matches[i].homeScore = Num(0) /\ Matches[i].awayScore = Num(0))
            => /\ MapHas(simulatedMatches, Matches[i].id)
               /\ simulatedMatches[Matches[i].id]
                    = [homeScore |-> Num(0), awayScore |-> Num(0)]
    /\ \A id \in TeamIds : \A f \in {"games", "draws", "points"} :
         TeamById(standings, id)[f]
            = LoadedValue(id, f) + ScoreTotal(Matches, id, f)

\* match 1 stands at 0-0 and is counted as a draw; match 2 has the single
\* score 0 and is not counted
C26_Witness ==
    /\ Matches[1].homeScore = Num(0) /\ Matches[1].awayScore = Num(0)
    /\ HalfEntered(Matches[2])
    /\ Num(0) \in {Matches[2].homeScore, Matches[2].awayScore}
    /\ TeamById(standings, 1).draws = LoadedValue(1, "draws") + 1
    /\ TeamById(standings, 3).games = LoadedValue(3, "games")
    /\ DOMAIN simulatedMatches = {1}

\* C27: a simulate, clear, score-update or round-change operation takes place
\* only after the first loadData has completed successfully (the table and the
\* fixtures are loaded and no load is pending), and as long as the first
\* loadData has not returned true no handler is attached.
EngineOperations ==
    {"simulateRound", "clearRound", "updateMatchScore", "changeRound"}

C27_NoOperationBeforeLoad ==
    [][/\ (lastOp'.op \in EngineOperations)
            => /\ probe.stage = "ready"
               /\ pendingLoads = 0
               /\ Len(standings) = Len(LoadedTable)
               /\ DOMAIN allMatches = DOMAIN RoundFixtures
       /\ (probe'.stage # "ready")
            => (~probe'.listeners /\ ~probe'.inputs /\ Unloaded')]_vars

C27_Witness ==
    /\ probe.stage = "ready"
    /\ lastOp.op = "updateMatchScore"
    /\ lastOp.had # {}
    /\ currentRound = MIN_ROUND + 1

\* C28: sortStandings never fails in the name tie-break: it returns both rows
\* with their positions, and rows level on every number are ordered by their
\* own name, a missing name counting as the empty string (so two nameless rows
\* keep their input order).
OwnName(team) == IF Has(team, "name") THEN team.name ELSE ""

C28_SortNeverFailsOnNames ==
    probe.stage = "sorted"
        => /\ ~probe.outcome.threw
           /\ Len(probe.outcome.value) = 2
           /\ (OwnName(probe.input[1]) = "" /\ OwnName(probe.input[2]) = ""
               /\ ~probe.outcome.threw)
                => [i \in 1..2 |-> WithoutPosition(probe.outcome.value[i])]
                     = probe.input

\* C29: in the changes computed by a rendering, the entry of a team carries
\* simulated = true exactly when the team is the home or the away team of a
\* match of the current round that has a ledger entry.
Participant(id) ==
    \E i \in 1..Len(Matches) :
        /\ MapHas(simulatedMatches, Matches[i].id)
        /\ (Matches[i].homeTeam.id = id \/ Matches[i].awayTeam.id = id)

C29_SimulatedMarksParticipants ==
    \A id \in DOMAIN probe.changes :
        (Has(probe.changes[id], "simulated") /\ probe.changes[id].simulated)
            <=> Participant(id)

\* C30: simulateRound leaves a match that was complete before the call as it
\* was, and a simulateRound that immediately follows a simulateRound changes
\* no score of any round, no ledger entry and no standings value.
C30_SecondSimulateChangesNothing ==
    [][/\ lastOp'.op = "simulateRound" =>
            \A i \in 1..Len(Matches) :
                isMatchComplete(Matches[i]) => Matches'[i] = Matches[i]
       /\ (lastOp.op = "simulateRound" /\ lastOp'.op = "simulateRound") =>
            /\ allMatches' = allMatches
            /\ simulatedMatches' = simulatedMatches
            /\ standings' = standings
      ]_vars

\* the second of two consecutive simulateRound calls on a filled round
C30_Witness ==
    /\ lastOp.op = "simulateRound"
    /\ lastOp.again
    /\ Len(Matches) > 0
    /\ lastOp.had = {Matches[i].id : i \in 1..Len(Matches)}

FixtureById(matchId) ==
    CHOOSE m \in AllRoundMatches : m.id = matchId

\* what the ledger entry of a match adds for a team
EntryShare(ledger, matchId, id, f) ==
    MatchShare(FixtureById(matchId), ledger[matchId].homeScore[1],
               ledger[matchId].awayScore[1], id, f)

RECURSIVE SumOver(_, _, _, _)
SumOver(ids, ledger, id, f) ==
    IF ids = {} THEN 0
    ELSE LET matchId == CHOOSE x \in ids : TRUE
         IN  EntryShare(ledger, matchId, id, f)
               + SumOver(ids \ {matchId}, ledger, id, f)

\* the ledger keys whose entry a step reverses, and those it applies: an entry
\* that is removed or replaced is reversed, one that is new or replaced is
\* applied; updateMatchScore on a complete match reverses and applies its own
Reversed ==
    {k \in DOMAIN simulatedMatches :
        \/ k \notin DOMAIN simulatedMatches'
        \/ simulatedMatches'[k] # simulatedMatches[k]
        \/ (lastOp'.op = "updateMatchScore" /\ lastOp'.id = k)}

Applied ==
    {k \in DOMAIN simulatedMatches' :
        \/ k \notin DOMAIN simulatedMatches
        \/ simulatedMatches'[k] # simulatedMatches[k]
        \/ (lastOp'.op = "updateMatchScore" /\ lastOp'.id = k)}

\* C32: a step that reverses ledger entries starts from standings that contain
\* every result of the ledger, and it takes from each team exactly what the
\* reversed entries hold for the home and the away team of their matches
\* (and adds what the entries it writes hold), in whichever round the
\* matches are and whichever round is shown.
C32_ReversalUndoesAppliedResult ==
    [][(Reversed # {} /\ lastOp'.op \in EngineOperations) =>
        /\ LedgerContainedInStandings
        /\ \A id \in TeamIds : \A f \in Accumulators :
             TeamById(standings', id)[f]
                = TeamById(standings, id)[f]
                    - SumOver(Reversed, simulatedMatches, id, f)
                    + SumOver(Applied, simulatedMatches', id, f)
      ]_vars

\* C33: when the reload of a confirmed reset fails with no other operation
\* since the reset, every match of the round shown is complete iff it has a
\* ledger entry, and the standings contain exactly the ledger's results.
C33_FailedReloadKeepsConsistency ==
    [][(lastOp.op = "resetChampionship" /\ lastOp'.op = "loadDataFailed") =>
        /\ \A i \in 1..Len(Matches') :
             isMatchComplete(Matches'[i])
                <=> MapHas(simulatedMatches', Matches'[i].id)
        /\ LedgerContainedInStandings'
      ]_vars

\* the standings are the loaded table plus the result of every match, of
\* whichever round, that has a ledger entry, and the entry of a match holds
\* the scores the match shows
CumulativeStandings ==
    /\ \A k \in DOMAIN simulatedMatches :
         \E r \in DOMAIN allMatches : \E i \in 1..Len(allMatches[r]) :
            /\ allMatches[r][i].id = k
            /\ simulatedMatches[k]
                 = [homeScore |-> allMatches[r][i].homeScore,
                    awayScore |-> allMatches[r][i].awayScore]
    /\ LedgerContainedInStandings

CurrentIds == {Matches[i].id : i \in 1..Len(Matches)}

\* C34: after any sequence of score edits, simulateRound, clearRound and
\* changeRound the standings are cumulative over the rounds, and right after
\* clearRound the ledger has lost the entries of the matches of the round
\* shown and no other, so that the results of other rounds stay counted.
C34_StandingsCumulativeAcrossRounds ==
    /\ CumulativeStandings
    /\ lastOp.op = "clearRound"
         => DOMAIN simulatedMatches = lastOp.had \ CurrentIds

\* clearRound in round 17 removed match 3 and kept both results of round 16
C34_Witness ==
    /\ lastOp.op = "clearRound"
    /\ currentRound = MIN_ROUND + 1
    /\ lastOp.had = {1, 2, 3}
    /\ DOMAIN simulatedMatches = {1, 2}
    /\ TeamById(standings, 1).games = LoadedValue(1, "games") + 1

\* C35: changeRound moves currentRound by at most one and makes the matches
\* of that round the current list; it leaves the standings, the ledger and
\* the scores of the matches of every round as they were, so the scores of a
\* round are there again when the round is shown again.
C35_ChangeRoundFrame ==
    [][lastOp'.op = "changeRound" =>
        /\ standings' = standings
        /\ simulatedMatches' = simulatedMatches
        /\ initialStandings' = initialStandings
        /\ allMatches' = allMatches
        /\ currentRound' \in {currentRound - 1, currentRound, currentRound + 1}
        /\ Matches' = IF currentRound' \in DOMAIN allMatches
                      THEN allMatches[currentRound'] ELSE <<>>
      ]_vars

\* back in round 16 after a visit to round 17, match 1 still complete
C35_Witness ==
    /\ lastOp.op = "changeRound"
    /\ lastOp.again
    /\ currentRound = MIN_ROUND
    /\ isMatchComplete(Matches[1])
    /\ HalfEntered(Matches[2])
    /\ DOMAIN simulatedMatches = {1}

\* C36: currentRound is always within MIN_ROUND..MAX_ROUND (16..38):
\* changeRound("prev") at MIN_ROUND and changeRound("next") at MAX_ROUND give
\* the same round, a changeRound step moves by at most one, and reset sets
\* the round to MIN_ROUND.
C36_RoundWithinSeason ==
    [][/\ currentRound' \in MIN_ROUND..MAX_ROUND
       /\ MIN_ROUND = 16 /\ MAX_ROUND = 38
       /\ changeRound(MIN_ROUND, "prev") = MIN_ROUND
       /\ changeRound(MAX_ROUND, "next") = MAX_ROUND
       /\ lastOp'.op = "changeRound"
            => currentRound' \in {currentRound - 1, currentRound,
                                  currentRound + 1}
       /\ lastOp'.op = "resetChampionship" => currentRound' = MIN_ROUND
      ]_vars

\* the next button pressed in the last round
C36_Witness ==
    /\ currentRound = MAX_ROUND
    /\ lastOp.op = "changeRound"
    /\ lastOp.again
    /\ pendingLoads = 0

\* C37: updateMatchScore with an id that no match of the current list has
\* changes no score of any round, no ledger entry and no standings value,
\* also when a match of another round has that id.
C37_UnknownMatchIdIsNoOp ==
    [][(lastOp'.op = "updateMatchScore" /\ lastOp'.id \notin CurrentIds) =>
        /\ allMatches' = allMatches
        /\ simulatedMatches' = simulatedMatches
        /\ standings' = standings
      ]_vars

\* called in round 16 with the id of match 3 of round 17, which is complete
\* and has a ledger entry
C37_Witness ==
    /\ lastOp.op = "updateMatchScore"
    /\ lastOp.id = 3
    /\ currentRound = MIN_ROUND
    /\ MapHas(simulatedMatches, 3)
    /\ DOMAIN simulatedMatches = lastOp.had

====
